---- MODULE Spec2Model ----
(***************************************************************************)
(* Model of package depaware (src/depaware/depaware.go): the accumulation  *)
(* of import edges and dependencies over the GOOS list, the ordering of    *)
(* the dependency list, the "why" attribution with the hints parsed back   *)
(* from the existing depaware.txt, the rendering of the file, the check /   *)
(* update / print modes, and Main's loop over the packages of the command  *)
(* line.                                                                   *)
(*                                                                         *)
(* A Go string is modelled as the sequence of its characters, each one a   *)
(* string: the ASCII characters are one byte each and Ord gives the byte's *)
(* value; the white-space characters above ASCII are named by their code   *)
(* point and ByteLen counts their bytes.  Comparisons, prefixes,           *)
(* substrings and the splitting of the file into lines and words are       *)
(* computed on these as the code computes them.                            *)
(***************************************************************************)
EXTENDS Integers, Sequences, FiniteSets, TLC

VARIABLES
  check,        \* flag -check
  update,       \* flag -update
  internal,     \* flag -internal
  geese,        \* the GOOS list of flag -goos, split at the commas
  ipaths,       \* the import paths pkgPaths resolved the arguments to
  ai,           \* position of Main's loop over ipaths
  pkg,          \* the package process is called for
  world,        \* what packages.Load answers under each GOOS
  d,            \* var d deps
  dir,          \* var dir, the directory of the package's first Go file
  gi,           \* position of the loop over geese
  daContents,   \* the bytes read from the depaware.txt file
  daErr,        \* whether reading the file failed
  preferredWhy, \* the hints parsed from the file
  buf,          \* the rendered bytes
  pc,           \* where the run is
  file,         \* the depaware.txt file in each package's directory
  stdout,       \* the bytes written to os.Stdout
  stderr,       \* what was written to os.Stderr
  exitCode,     \* the exit status of the run
  runs,         \* the number of runs started
  writtenFor,   \* for each package, the input of the run that wrote its file
  lastRun       \* whether no run after this one is followed (MaxCut)

vars == <<check, update, internal, geese, ipaths, ai, pkg, world, d, dir, gi,
          daContents, daErr, preferredWhy, buf, pc, file, stdout, stderr,
          exitCode, runs, writtenFor, lastRun>>

(***************************************************************************)
(* Bytes and strings.                                                      *)
(***************************************************************************)
Lower == <<"a","b","c","d","e","f","g","h","i","j","k","l","m",
           "n","o","p","q","r","s","t","u","v","w","x","y","z">>
Upper == <<"A","B","C","D","E","F","G","H","I","J","K","L","M",
           "N","O","P","Q","R","S","T","U","V","W","X","Y","Z">>

\* The other bytes that occur, with their values.
Punct == <<"\n", " ", "(", ")", "+", ".", "/", ":">>
PunctOrd == <<10, 32, 40, 41, 43, 46, 47, 58>>

\* The value of a byte (ASCII), as the < of Go strings compares it.
OrdTable ==
  [c \in {Lower[i] : i \in 1..26} \cup {Upper[i] : i \in 1..26}
          \cup {Punct[i] : i \in 1..8} |->
     IF \E i \in 1..26 : Lower[i] = c
     THEN 96 + (CHOOSE i \in 1..26 : Lower[i] = c)
     ELSE IF \E i \in 1..26 : Upper[i] = c
     THEN 64 + (CHOOSE i \in 1..26 : Upper[i] = c)
     ELSE PunctOrd[CHOOSE i \in 1..8 : Punct[i] = c]]

Ord(c) == OrdTable[c]

\* unicode.ToUpper on an ASCII byte.
UpperTable ==
  [c \in DOMAIN OrdTable |->
     IF \E i \in 1..26 : Lower[i] = c
     THEN Upper[CHOOSE i \in 1..26 : Lower[i] = c]
     ELSE c]

ToUpper(c) == UpperTable[c]

\* The < of Go strings: bytewise lexicographic order.
StrLess(a, b) ==
  \E k \in 1..Len(b) :
    /\ k <= Len(a) + 1
    /\ \A j \in 1..(k-1) : a[j] = b[j]
    /\ \/ k = Len(a) + 1
       \/ Ord(a[k]) < Ord(b[k])

\* strings.HasPrefix
HasPrefix(s, p) == Len(p) <= Len(s) /\ SubSeq(s, 1, Len(p)) = p

\* The (1-based) positions at which sub occurs in s.
Occurrences(s, sub) ==
  {i \in 1..(Len(s) - Len(sub) + 1) : SubSeq(s, i, i + Len(sub) - 1) = sub}

\* strings.Contains
Contains(s, sub) == Occurrences(s, sub) # {}

\* strings.LastIndex, 1-based; 0 when sub does not occur.
LastIndex(s, sub) ==
  IF Occurrences(s, sub) = {} THEN 0
  ELSE CHOOSE i \in Occurrences(s, sub) : \A j \in Occurrences(s, sub) : j <= i

\* n spaces.
Spaces(n) == [i \in 1..n |-> " "]

(***************************************************************************)
(* The string literals of the source.                                      *)
(***************************************************************************)
sDot         == <<".">>
sGolangX     == <<"g","o","l","a","n","g",".","o","r","g","/","x">>
sGolangXDir  == sGolangX \o <<"/">>
sUnsafe      == <<"u","n","s","a","f","e">>
sRuntime     == <<"r","u","n","t","i","m","e">>
sRuntimeCgo  == sRuntime \o <<"/","c","g","o">>
sInternalPre == <<"i","n","t","e","r","n","a","l","/">>
sInternalMid == <<"/">> \o sInternalPre
sRuntimeInt  == sRuntime \o sInternalMid
sVendorPre   == <<"v","e","n","d","o","r","/">>
sVendorMid   == <<"/">> \o sVendorPre
sFrom        == <<"f","r","o","m">>
sFromSp      == sFrom \o <<" ">>
sPlus        == <<"+">>
sHeaderTail  ==
  <<" ","d","e","p","e","n","d","e","n","c","i","e","s",":"," ","(",
    "g","e","n","e","r","a","t","e","d"," ","b","y"," ",
    "g","i","t","h","u","b",".","c","o","m","/",
    "t","a","i","l","s","c","a","l","e","/",
    "d","e","p","a","w","a","r","e",")","\n","\n">>

\* The field widths of the line format " %3s %s%s %-60s %s\n".
OSFieldWidth == 3
PkgFieldWidth == 60

(***************************************************************************)
(* Pure helpers of the package.                                            *)
(***************************************************************************)
\* imports.VendorlessPath, called by AddEdge and AddDep: the path after the
\* last "/vendor/", or after a leading "vendor/".
VendorlessPath(ipath) ==
  IF LastIndex(ipath, sVendorMid) > 0
  THEN SubSeq(ipath, LastIndex(ipath, sVendorMid) + Len(sVendorMid), Len(ipath))
  ELSE IF HasPrefix(ipath, sVendorPre)
  THEN SubSeq(ipath, Len(sVendorPre) + 1, Len(ipath))
  ELSE ipath

stringsContains(ss, s) == \E i \in 1..Len(ss) : ss[i] = s

isGoPackage(p) == ~Contains(p, sDot) \/ Contains(p, sGolangX)

isInternalPackage(p) ==
  \/ HasPrefix(p, sInternalPre)
  \/ HasPrefix(p, sRuntimeInt)
  \/ p = sRuntime
  \/ p = sRuntimeCgo
  \/ p = sUnsafe
  \/ (Contains(p, sInternalMid) /\ isGoPackage(p))

\* A Go map read: the zero value (the empty string or slice) for a missing key.
MapGet(m, k) == IF k \in DOMAIN m THEN m[k] ELSE <<>>

\* A Go map write.
MapPut(m, k, v) == [x \in (DOMAIN m) \cup {k} |-> IF x = k THEN v ELSE m[x]]

EmptyMap == [x \in {} |-> <<>>]

(***************************************************************************)
(* type deps and its methods.  A map[...]bool that only ever stores true   *)
(* is the set of its keys; DepTo maps a package to the slice of its        *)
(* importers.                                                              *)
(***************************************************************************)
EmptyDeps ==
  [Deps |-> <<>>, DepOnOS |-> {}, DepTo |-> EmptyMap,
   UsesUnsafe |-> {}, UsesCGO |-> {}]

\* AddEdge appending without the stringsContains test.
AddEdgeNoDedup(dd, from0, to0) ==
  LET from == VendorlessPath(from0)
      to   == VendorlessPath(to0)
  IN  [dd EXCEPT
         !.DepTo = MapPut(@, to, Append(MapGet(@, to), from)),
         !.UsesUnsafe = IF to = sUnsafe THEN @ \cup {from} ELSE @,
         !.UsesCGO = IF to = sRuntimeCgo THEN @ \cup {from} ELSE @]

AddEdge(dd, from0, to0) ==
  LET from == VendorlessPath(from0)
      to   == VendorlessPath(to0)
      cur  == MapGet(dd.DepTo, to)
  IN  [dd EXCEPT
         !.DepTo = IF stringsContains(cur, from) THEN @
                   ELSE MapPut(@, to, Append(cur, from)),
         !.UsesUnsafe = IF to = sUnsafe THEN @ \cup {from} ELSE @,
         !.UsesCGO = IF to = sRuntimeCgo THEN @ \cup {from} ELSE @]

\* AddDep without the test of the -internal flag.
AddDepNoFilter(dd, pkg0, goos) ==
  LET p == VendorlessPath(pkg0)
  IN  [dd EXCEPT
         !.Deps = IF stringsContains(@, p) THEN @ ELSE Append(@, p),
         !.DepOnOS = @ \cup {<<p, goos>>}]

AddDep(dd, pkg0, goos) ==
  LET p == VendorlessPath(pkg0)
  IN  IF ~internal /\ isInternalPackage(p) THEN dd
      ELSE [dd EXCEPT
              !.Deps = IF stringsContains(@, p) THEN @ ELSE Append(@, p),
              !.DepOnOS = @ \cup {<<p, goos>>}]

\* The elements of the set of integers S in increasing order.
Ascending(S) ==
  [i \in 1..Cardinality(S) |->
     CHOOSE x \in S : Cardinality({y \in S : y < x}) = i - 1]

\* sort.Strings: the slice in increasing order of its strings.
SortStrings(ss) ==
  LET Before(p, q) == StrLess(ss[p], ss[q]) \/ (ss[p] = ss[q] /\ p < q)
      At(i) == CHOOSE p \in 1..Len(ss) :
                 Cardinality({q \in 1..Len(ss) : Before(q, p)}) = i - 1
  IN  [i \in 1..Len(ss) |-> ss[At(i)]]

\* The less function handed to sort.Slice for d.Deps.
depsLess(d1, d2) ==
  LET p1 == Contains(d1, sDot)
      p2 == Contains(d2, sDot)
      x1 == Contains(d1, sGolangXDir)
      x2 == Contains(d2, sGolangXDir)
  IN  IF p1 # p2 THEN p1
      ELSE IF x1 # x2 THEN x2
      ELSE StrLess(d1, d2)

\* sort.Slice(d.Deps, less): less is a strict total order on distinct
\* strings, so the sorted slice is the one arrangement it admits.
SortDeps(ss) ==
  LET Before(p, q) == depsLess(ss[p], ss[q])
                      \/ (~depsLess(ss[q], ss[p]) /\ p < q)
      At(i) == CHOOSE p \in 1..Len(ss) :
                 Cardinality({q \in 1..Len(ss) : Before(q, p)}) = i - 1
  IN  [i \in 1..Len(ss) |-> ss[At(i)]]

\* Why without sort.Strings: the importer recorded first.
WhyUnsorted(dd, p, pw) ==
  LET from == MapGet(dd.DepTo, p)
      pref == MapGet(pw, p)
      hit  == pref # <<>> /\ stringsContains(from, pref)
      plus == IF Len(from) > 1 THEN sPlus ELSE <<>>
  IN  IF Len(from) = 0 THEN [ret |-> <<>>, from |-> from]
      ELSE [ret |-> sFromSp \o (IF hit THEN pref ELSE from[1]) \o plus,
            from |-> from]

\* deps.Why: ret is the returned text, from the slice d.DepTo[pkg] as the
\* call leaves it (sort.Strings sorts it in place on the fallback path).
Why(dd, p, pw) ==
  LET from == MapGet(dd.DepTo, p)
      pref == MapGet(pw, p)
      hit  == pref # <<>> /\ stringsContains(from, pref)
      srt  == SortStrings(from)
      why  == IF hit THEN pref ELSE srt[1]
      plus == IF Len(from) > 1 THEN sPlus ELSE <<>>
  IN  IF Len(from) = 0 THEN [ret |-> <<>>, from |-> from]
      ELSE [ret |-> sFromSp \o why \o plus,
            from |-> IF hit THEN from ELSE srt]

(***************************************************************************)
(* parsePreferredWhy.                                                      *)
(***************************************************************************)
\* The white-space characters that have no escape in a string here, each
\* one element of a file's sequence: the vertical tab, and the characters
\* above U+007F named by their code point.
VT   == "<VT>"
NEL  == "<U+0085>"
NBSP == "<U+00A0>"
IDSP == "<U+3000>"

\* The white space of Latin-1 above U+007F (two bytes each in UTF-8), and
\* the white space above Latin-1 (three bytes each).
Latin1Spaces == {NEL, NBSP}
WideSpaces ==
  {"<U+1680>", "<U+2000>", "<U+2001>", "<U+2002>", "<U+2003>", "<U+2004>",
   "<U+2005>", "<U+2006>", "<U+2007>", "<U+2008>", "<U+2009>", "<U+200A>",
   "<U+2028>", "<U+2029>", "<U+202F>", "<U+205F>", IDSP}

\* unicode.IsSpace, as bytes.Fields applies it: the six ASCII spaces, the
\* two Latin-1 ones and the characters of the White_Space property.
IsSpace(c) ==
  c \in {" ", "\n", "\t", "\r", "\f", VT} \cup Latin1Spaces \cup WideSpaces

\* The number of bytes of the characters of l in the file.
ByteLen(l) ==
  Len(l) + Cardinality({i \in 1..Len(l) : l[i] \in Latin1Spaces})
         + 2 * Cardinality({i \in 1..Len(l) : l[i] \in WideSpaces})

\* bufio.MaxScanTokenSize, the size the Scanner's buffer grows to.
MaxScanTokenSize == 65536

\* bufio.ScanLines drops one carriage return from the end of a line.
DropCR(l) ==
  IF Len(l) > 0 /\ l[Len(l)] = "\r" THEN SubSeq(l, 1, Len(l) - 1) ELSE l

\* bufio.Scanner with bufio.ScanLines, as the loop `for scan.Scan()` sees
\* it: the lines of b without their newline (and without a carriage return
\* before it); a last line needs no newline.  A line that does not leave
\* room in the buffer for one more byte ends the scan with ErrTooLong,
\* which the loop does not look at: that line and the lines after it are
\* not read.
ScanLines(b) ==
  LET nl   == Ascending({i \in 1..Len(b) : b[i] = "\n"})
      n    == Len(nl)
      last == IF n = 0 THEN 0 ELSE nl[n]
      Raw(k) == IF k <= n
                THEN SubSeq(b, (IF k = 1 THEN 0 ELSE nl[k-1]) + 1, nl[k] - 1)
                ELSE SubSeq(b, last + 1, Len(b))
      all  == 1..(IF last < Len(b) THEN n + 1 ELSE n)
      long == {k \in all : ByteLen(Raw(k)) >= MaxScanTokenSize}
      read == IF long = {} THEN all
              ELSE 1..((CHOOSE k \in long : \A j \in long : k <= j) - 1)
  IN  [k \in read |-> DropCR(Raw(k))]

\* bytes.Fields: the maximal runs of non-space bytes, in order.
Fields(l) ==
  LET starts == Ascending({i \in 1..Len(l) :
                  ~IsSpace(l[i]) /\ (i = 1 \/ IsSpace(l[i-1]))})
      ends   == Ascending({i \in 1..Len(l) :
                  ~IsSpace(l[i]) /\ (i = Len(l) \/ IsSpace(l[i+1]))})
  IN  [k \in 1..Len(starts) |-> SubSeq(l, starts[k], ends[k])]

\* bytes.TrimRight(s, "+")
TrimRightPlus(s) ==
  LET keep == {k \in 0..Len(s) : k = 0 \/ s[k] # "+"}
  IN  SubSeq(s, 1, CHOOSE k \in keep : \A j \in keep : j <= k)

\* The value of i (counted from 1) when the loop over words ends: the first
\* word equal to "from", else the last index; 1 when there are no words.
FromIndex(words) ==
  LET hits == {i \in 1..Len(words) : words[i] = sFrom}
  IN  IF Len(words) = 0 THEN 1
      ELSE IF hits = {} THEN Len(words)
      ELSE CHOOSE i \in hits : \A j \in hits : i <= j

\* ParseLine without bytes.TrimRight.
ParseLineNoTrim(l) ==
  LET words == Fields(l)
      i     == FromIndex(words)
  IN  IF i < 2 \/ i >= Len(words) THEN <<>>
      ELSE <<words[i-1], words[i+1]>>

\* What one line contributes: <<dep, src>>, or <<>> when it is skipped.
ParseLine(l) ==
  LET words == Fields(l)
      i     == FromIndex(words)
  IN  IF i < 2 \/ i >= Len(words) THEN <<>>
      ELSE <<words[i-1], TrimRightPlus(words[i+1])>>

parsePreferredWhy(r) ==
  LET lines == ScanLines(r)
      ents  == [k \in 1..Len(lines) |-> ParseLine(lines[k])]
      valid == {k \in 1..Len(ents) : ents[k] # <<>>}
      LastOf(dep) == CHOOSE k \in valid :
                       /\ ents[k][1] = dep
                       /\ \A j \in valid : ents[j][1] = dep => j <= k
  IN  [dep \in {ents[k][1] : k \in valid} |-> ents[LastOf(dep)][2]]

(***************************************************************************)
(* Rendering (process, lines 125-148).                                     *)
(***************************************************************************)
\* fmt's %3s and %-60s: pad with spaces up to the width, never truncate.
PadLeft(s, w) == Spaces(IF Len(s) < w THEN w - Len(s) ELSE 0) \o s
PadRight(s, w) == s \o Spaces(IF Len(s) < w THEN w - Len(s) ELSE 0)

\* osBuf after the loop over geese, before the reset.
RECURSIVE OSLetters(_, _, _, _)
OSLetters(dd, p, gs, i) ==
  IF i > Len(gs) THEN <<>>
  ELSE (IF <<p, gs[i]>> \in dd.DepOnOS
        THEN <<ToUpper(gs[i][1])>> ELSE <<>>)
       \o OSLetters(dd, p, gs, i + 1)

\* osBuf printed without the reset.
OSFieldNoReset(dd, p, gs) == OSLetters(dd, p, gs, 1)

\* osBuf as it is printed: reset when it holds a letter for every GOOS.
OSField(dd, p, gs) ==
  LET osBuf == OSLetters(dd, p, gs, 1)
  IN  IF Len(osBuf) = Len(gs) THEN <<>> ELSE osBuf

unsafeIcon(dd, p) ==
  IF p \in dd.UsesUnsafe /\ ~isGoPackage(p) THEN <<"U">> ELSE <<" ">>

cgoIcon(dd, p) ==
  IF p \in dd.UsesCGO /\ ~isGoPackage(p) THEN <<"C">> ELSE <<" ">>

\* One line of the file: " %3s %s%s %-60s %s\n".
FormatLine(dd, p, gs, why) ==
  <<" ">> \o PadLeft(OSField(dd, p, gs), OSFieldWidth) \o <<" ">>
  \o unsafeIcon(dd, p) \o cgoIcon(dd, p) \o <<" ">>
  \o PadRight(p, PkgFieldWidth) \o <<" ">> \o why \o <<"\n">>

\* The loop over d.Deps from index i on: the bytes appended to buf and the
\* DepTo map as the calls of Why leave it.
RECURSIVE RenderFrom(_, _, _, _)
RenderFrom(dd, i, gs, pw) ==
  IF i > Len(dd.Deps) THEN [buf |-> <<>>, DepTo |-> dd.DepTo]
  ELSE LET p  == dd.Deps[i]
           w    == Why(dd, p, pw)
           d2   == [dd EXCEPT !.DepTo = IF p \in DOMAIN @
                                       THEN MapPut(@, p, w.from) ELSE @]
           rest == RenderFrom(d2, i + 1, gs, pw)
       IN  [buf |-> FormatLine(dd, p, gs, w.ret) \o rest.buf,
            DepTo |-> rest.DepTo]

\* buf after the header and the loop.
Render(root, dd, gs, pw) ==
  LET r == RenderFrom(dd, 1, gs, pw)
  IN  [buf |-> root \o sHeaderTail \o r.buf, DepTo |-> r.DepTo]

(***************************************************************************)
(* The inputs: the packages the loader reports, the files found on disk    *)
(* and the runs' arguments.                                                *)
(***************************************************************************)
Root  == <<"r",".","i","o","/","m">>
Second == <<"r",".","i","o","/","n">>
Bogus == <<"-","x">>
ThirdA == <<"a",".","b","/","i","n","t","e","r","n","a","l","/","c">>
ThirdZ == <<"z",".","y","/","q">>
ThirdP == <<"z",".","z","/","c","+">>
ThirdG == <<"e",".">> \o sGolangX \o <<"y","/","t">>
VendoredZ == Root \o sVendorMid \o ThirdZ
ExtX  == sGolangXDir \o <<"s">>
StdSync == <<"s","y","n","c">>
InternalP == sInternalPre \o <<"p">>

linux   == <<"l","i","n","u","x">>
darwin  == <<"d","a","r","w","i","n">>
windows == <<"w","i","n","d","o","w","s">>
freebsd == <<"f","r","e","e","b","s","d">>
openbsd == <<"o","p","e","n","b","s","d">>

\* Import graphs, as p.Imports of every package reached from the root.
GraphSmall ==
  (Root :> {ThirdZ}) @@ (ThirdZ :> {ExtX, StdSync})
  @@ (ExtX :> {StdSync, sUnsafe}) @@ (StdSync :> {InternalP, sUnsafe})
  @@ (InternalP :> {}) @@ (sUnsafe :> {})

GraphVendored ==
  (Root :> {VendoredZ}) @@ (VendoredZ :> {ExtX, StdSync})
  @@ (ExtX :> {StdSync, sUnsafe}) @@ (StdSync :> {InternalP, sUnsafe})
  @@ (InternalP :> {}) @@ (sUnsafe :> {})

GraphFull ==
  (Root :> {ThirdA, ThirdZ}) @@ (ThirdA :> {sRuntimeCgo, sUnsafe, ExtX})
  @@ (sRuntimeCgo :> {StdSync, sUnsafe}) @@ (ThirdZ :> {ExtX, StdSync})
  @@ (ExtX :> {StdSync, sUnsafe}) @@ (StdSync :> {InternalP, sUnsafe})
  @@ (InternalP :> {}) @@ (sUnsafe :> {})

GraphCgo ==
  (Root :> {ThirdA}) @@ (ThirdA :> {sRuntimeCgo, sUnsafe})
  @@ (sRuntimeCgo :> {StdSync, sUnsafe}) @@ (StdSync :> {sUnsafe})
  @@ (sUnsafe :> {})

GraphBare == (Root :> {})

\* The root importing sync alone.
GraphSync ==
  (Root :> {StdSync}) @@ (StdSync :> {sUnsafe}) @@ (sUnsafe :> {})

\* An importer whose import path ends in '+', before and after a second
\* importer of the same package appears.
GraphPlusBefore ==
  (Root :> {ThirdP}) @@ (ThirdP :> {StdSync}) @@ (StdSync :> {})

GraphPlus ==
  (Root :> {ThirdA, ThirdP}) @@ (ThirdA :> {StdSync})
  @@ (ThirdP :> {StdSync}) @@ (StdSync :> {})

\* A package whose path contains "golang.org/x" and not "golang.org/x/",
\* importing unsafe and runtime/cgo.
GraphNear ==
  (Root :> {ThirdG}) @@ (ThirdG :> {sRuntimeCgo, sUnsafe})
  @@ (sRuntimeCgo :> {sUnsafe}) @@ (sUnsafe :> {})

\* The graph of the second package of the command line.
GraphSecond == (Second :> {StdSync}) @@ (StdSync :> {})

\* A world: the GOOS list, the graph loaded for Root under each GOOS, and
\* whether Root has Go files under it.
WorldCgo == [geese |-> <<linux>>, graphs |-> <<GraphCgo>>, files |-> <<TRUE>>]

Worlds ==
  { WorldCgo,
    [geese |-> <<linux>>, graphs |-> <<GraphPlus>>, files |-> <<TRUE>>],
    [geese |-> <<linux>>, graphs |-> <<GraphNear>>, files |-> <<TRUE>>],
    [geese |-> <<linux, darwin>>, graphs |-> <<GraphFull, GraphVendored>>,
     files |-> <<TRUE, TRUE>>],
    [geese |-> <<linux, darwin, windows>>,
     graphs |-> <<GraphCgo, GraphSmall, GraphSmall>>,
     files |-> <<FALSE, TRUE, TRUE>>],
    [geese |-> <<linux, darwin, windows, freebsd, openbsd>>,
     graphs |-> <<GraphCgo, GraphCgo, GraphCgo, GraphCgo, GraphSync>>,
     files |-> <<TRUE, TRUE, TRUE, TRUE, TRUE>>],
    [geese |-> <<linux>>, graphs |-> <<GraphBare>>, files |-> <<FALSE>>] }

\* What packages.Load(cfg, p) answers under the i-th GOOS of world w.
LoadGraph(w, p, i) == IF p = Second THEN GraphSecond ELSE w.graphs[i]
LoadHasFiles(w, p, i) == IF p = Second THEN TRUE ELSE w.files[i]

\* The command lines: the world they run in and the import paths pkgPaths
\* answers with.  Root alone in every world; no package, two packages and
\* a bogus argument in one.
Commands ==
  {[world |-> w, paths |-> <<Root>>] : w \in Worlds}
  \cup {[world |-> WorldCgo, paths |-> p] :
          p \in {<<>>, <<Root, Second>>, <<Root, Bogus>>}}

\* The packages that have a directory.
Pkgs == {Root, Second}

\* The number of runs of the program that are followed.
MaxRuns == 2

\* A failed write can stop after any number of bytes.  A further run is
\* followed after the writes that stopped at most MaxCut bytes from the
\* start or from the end of the rendered bytes, and after those that left
\* the file as it was.
MaxCut == 1

(***************************************************************************)
(* packages.Visit with the callback of process (lines 87-98).              *)
(***************************************************************************)
\* The strings of the set S as a slice, increasing, or decreasing when rev.
SliceOf(S, rev) ==
  [i \in 1..Cardinality(S) |->
     CHOOSE x \in S :
       Cardinality({y \in S : IF rev THEN StrLess(x, y) ELSE StrLess(y, x)})
         = i - 1]

\* The orders in which Visit can call its post function on the packages of
\* graph g: each package after the packages it imports, once.
RECURSIVE VisitOrdersFrom(_, _, _)
VisitOrdersFrom(g, prefix, placed) ==
  IF placed = DOMAIN g THEN {prefix}
  ELSE UNION { VisitOrdersFrom(g, Append(prefix, n), placed \cup {n}) :
               n \in {m \in (DOMAIN g) \ placed : g[m] \subseteq placed} }

Graphs == {GraphSmall, GraphVendored, GraphFull, GraphCgo, GraphBare, GraphSync,
           GraphPlusBefore, GraphPlus, GraphNear, GraphSecond}

OrdersTable == [g \in Graphs |-> VisitOrdersFrom(g, <<>>, {})]

VisitOrders(g) == OrdersTable[g]

\* for imp := range p.Imports { d.AddEdge(p.PkgPath, imp) }, the map ranged
\* over in the order imps.
RECURSIVE AddEdges(_, _, _, _)
AddEdges(dd, from, imps, i) ==
  IF i > Len(imps) THEN dd
  ELSE AddEdges(AddEdge(dd, from, imps[i]), from, imps, i + 1)

\* The callback on package p: its edges, then AddDep unless p is the root.
Callback(dd, g, p, root, goos, rev) ==
  LET d1 == AddEdges(dd, p, SliceOf(g[p], rev), 1)
  IN  IF p = root THEN d1 ELSE AddDep(d1, p, goos)

\* The callbacks of one Visit, on the packages in the order given.
RECURSIVE VisitAll(_, _, _, _, _, _, _)
VisitAll(dd, g, order, i, root, goos, rev) ==
  IF i > Len(order) THEN dd
  ELSE VisitAll(Callback(dd, g, order[i], root, goos, rev),
                g, order, i + 1, root, goos, rev)

(***************************************************************************)
(* The depaware.txt files found on disk before the first run.              *)
(***************************************************************************)
NoFile == [exists |-> FALSE, bytes |-> <<>>]

\* A file edited by hand.  Its first lines have the layout of the example
\* in parsePreferredWhy's comment: the dependency, spaces, "from", the
\* source.  Then come words separated by a form feed, a vertical tab, a
\* no-break space and U+0085, a carriage return before the newline, a
\* second and a third line for one dependency, a source followed by two
\* '+', words separated by U+3000 and U+1680, a line ending in "from", and
\* a last line without a newline.
HandEdited ==
  <<"[",".",".",".","]","\n">>
  \o StdSync \o Spaces(11) \o sFromSp \o sRuntimeCgo \o sPlus \o <<"\n">>
  \o ExtX \o Spaces(4) \o sFromSp \o ThirdZ \o <<"\n">>
  \o StdSync \o <<"\f">> \o sFrom \o <<VT>> \o ExtX \o <<"\r", "\n">>
  \o StdSync \o <<NBSP>> \o sFrom \o <<NEL>> \o ThirdZ \o sPlus \o sPlus
     \o <<"\n">>
  \o ExtX \o <<IDSP>> \o sFrom \o <<"<U+1680>">> \o ThirdA \o <<"\n">>
  \o ThirdZ \o <<" ">> \o sFrom \o <<"\n">>
  \o ThirdA \o <<" ">> \o sFromSp \o ThirdZ

\* A file with a line of MaxScanTokenSize bytes between two lines that name
\* a source.
Overlong ==
  ExtX \o <<" ">> \o sFromSp \o ThirdZ \o <<"\n">>
  \o [i \in 1..MaxScanTokenSize |-> "a"] \o <<"\n">>
  \o StdSync \o <<" ">> \o sFromSp \o ThirdZ \o <<"\n">>

\* The file an update run wrote while ThirdP was the only importer of sync.
WrittenPlusBefore ==
  Render(Root,
         [VisitAll(EmptyDeps, GraphPlusBefore,
                   CHOOSE o \in VisitOrders(GraphPlusBefore) : TRUE,
                   1, Root, linux, FALSE) EXCEPT !.Deps = SortDeps(@)],
         <<linux>>, EmptyMap).buf

FoundFiles ==
  {NoFile} \cup {[exists |-> TRUE, bytes |-> b] :
                   b \in {HandEdited, Overlong, WrittenPlusBefore}}

(***************************************************************************)
(* The state machine: Main, its loop over the packages, and process.       *)
(***************************************************************************)
Init ==
  /\ check = FALSE /\ update = FALSE /\ internal = FALSE
  /\ geese = <<>> /\ ipaths = <<>> /\ ai = 1 /\ pkg = Root
  /\ world = [geese |-> <<>>, graphs |-> <<>>, files |-> <<>>]
  /\ d = EmptyDeps /\ dir = "" /\ gi = 1
  /\ daContents = <<>> /\ daErr = FALSE /\ preferredWhy = EmptyMap
  /\ buf = <<>> /\ pc = "idle"
  /\ \E f \in FoundFiles : file = (Root :> f) @@ (Second :> NoFile)
  /\ stdout = <<>> /\ stderr = <<>> /\ exitCode = 0
  /\ runs = 0 /\ writtenFor = [p \in Pkgs |-> <<>>] /\ lastRun = FALSE

Ended == pc \in {"idle", "done", "fatal", "exit1"}

\* What is written to os.Stderr: the message of log.Fatal, the notice
\* "The list of dependencies in ... is out of date." and the unified diff.
sFatal     == "fatal"
sOutOfDate == "out of date"
sDiff      == "diff"

\* The variables of process as a call of it finds them; they are the same
\* once the process has exited, its memory gone.
FreshRun ==
  /\ d' = EmptyDeps /\ dir' = "" /\ gi' = 1
  /\ daContents' = <<>> /\ daErr' = FALSE /\ preferredWhy' = EmptyMap
  /\ buf' = <<>>

\* A run starts: flag.Parse, the arguments resolved, none of them bogus, and
\* the first call of process; with no package, Main returns at once.
Start(w, paths, chk, upd, incl) ==
  /\ Ended /\ runs < MaxRuns /\ ~lastRun
  /\ ~(chk /\ upd)
  /\ \A i \in 1..Len(paths) : ~HasPrefix(paths[i], <<"-">>)
  /\ check' = chk /\ update' = upd /\ internal' = incl
  /\ geese' = w.geese /\ world' = w
  /\ ipaths' = paths /\ ai' = 1
  /\ pkg' = IF Len(paths) > 0 THEN paths[1] ELSE pkg
  /\ pc' = IF Len(paths) > 0 THEN "visit" ELSE "done"
  /\ FreshRun
  /\ stdout' = <<>> /\ stderr' = <<>> /\ exitCode' = 0
  /\ runs' = runs + 1
  /\ UNCHANGED <<file, writtenFor, lastRun>>

\* -check and -update together: log.Fatalf before anything is resolved.
BadFlags(incl) ==
  /\ Ended /\ runs < MaxRuns /\ ~lastRun
  /\ check' = TRUE /\ update' = TRUE /\ internal' = incl
  /\ geese' = <<>> /\ ipaths' = <<>> /\ ai' = 1
  /\ FreshRun
  /\ pc' = "fatal"
  /\ stdout' = <<>> /\ stderr' = <<sFatal>> /\ exitCode' = 1
  /\ runs' = runs + 1
  /\ UNCHANGED <<pkg, world, file, writtenFor, lastRun>>

\* pkgPaths returns an error: log.Fatalf("could not resolve packages").
PkgPathsFails(chk, upd, incl) ==
  /\ Ended /\ runs < MaxRuns /\ ~lastRun
  /\ ~(chk /\ upd)
  /\ check' = chk /\ update' = upd /\ internal' = incl
  /\ geese' = <<>> /\ ipaths' = <<>> /\ ai' = 1
  /\ FreshRun
  /\ pc' = "fatal"
  /\ stdout' = <<>> /\ stderr' = <<sFatal>> /\ exitCode' = 1
  /\ runs' = runs + 1
  /\ UNCHANGED <<pkg, world, file, writtenFor, lastRun>>

\* A resolved path starts with "-": log.Fatalf("bogus package argument"),
\* before any package is processed.
BogusArg(paths, chk, upd, incl) ==
  /\ Ended /\ runs < MaxRuns /\ ~lastRun
  /\ ~(chk /\ upd)
  /\ \E i \in 1..Len(paths) : HasPrefix(paths[i], <<"-">>)
  /\ check' = chk /\ update' = upd /\ internal' = incl
  /\ geese' = <<>> /\ ipaths' = paths /\ ai' = 1
  /\ FreshRun
  /\ pc' = "fatal"
  /\ stdout' = <<>> /\ stderr' = <<sFatal>> /\ exitCode' = 1
  /\ runs' = runs + 1
  /\ UNCHANGED <<pkg, world, file, writtenFor, lastRun>>

\* One turn of the loop over geese: Load succeeds, Visit runs the callback.
VisitTarget(order, rev) ==
  /\ pc = "visit" /\ gi <= Len(geese)
  /\ order \in VisitOrders(LoadGraph(world, pkg, gi))
  /\ d' = VisitAll(d, LoadGraph(world, pkg, gi), order, 1, pkg, geese[gi], rev)
  /\ dir' = IF dir = "" /\ LoadHasFiles(world, pkg, gi) THEN "dir" ELSE dir
  /\ gi' = gi + 1
  /\ UNCHANGED <<check, update, internal, geese, ipaths, ai, pkg, world,
                 daContents, daErr, preferredWhy, buf, pc, file, stdout,
                 stderr, exitCode, runs, writtenFor, lastRun>>

\* packages.Load returns an error: log.Fatalf.
LoadFails ==
  /\ pc = "visit" /\ gi <= Len(geese)
  /\ pc' = "fatal" /\ stderr' = <<sFatal>> /\ exitCode' = 1
  /\ FreshRun
  /\ UNCHANGED <<check, update, internal, geese, ipaths, ai, pkg, world,
                 file, stdout, runs, writtenFor, lastRun>>

\* dir == "": log.Fatalf("no .go files found ...").
NoGoFiles ==
  /\ pc = "visit" /\ gi > Len(geese) /\ dir = ""
  /\ pc' = "fatal" /\ stderr' = <<sFatal>> /\ exitCode' = 1
  /\ FreshRun
  /\ UNCHANGED <<check, update, internal, geese, ipaths, ai, pkg, world,
                 file, stdout, runs, writtenFor, lastRun>>

\* sort.Slice(d.Deps, ...), then the read of the file and the parse of its
\* hints (lines 105-123).
SortAndRead ==
  /\ pc = "visit" /\ gi > Len(geese) /\ dir # ""
  /\ d' = [d EXCEPT !.Deps = SortDeps(@)]
  /\ daContents' = file[pkg].bytes
  /\ daErr' = ~file[pkg].exists
  /\ preferredWhy' = IF file[pkg].exists
                     THEN parsePreferredWhy(file[pkg].bytes)
                     ELSE EmptyMap
  /\ pc' = "sorted"
  /\ UNCHANGED <<check, update, internal, geese, ipaths, ai, pkg, world, dir,
                 gi, buf, file, stdout, stderr, exitCode, runs, writtenFor,
                 lastRun>>

\* The header and one line for each dependency (lines 125-148).
RenderBuf ==
  /\ pc = "sorted"
  /\ LET r == Render(pkg, d, geese, preferredWhy)
     IN  buf' = r.buf /\ d' = [d EXCEPT !.DepTo = r.DepTo]
  /\ pc' = "rendered"
  /\ UNCHANGED <<check, update, internal, geese, ipaths, ai, pkg, world, dir,
                 gi, daContents, daErr, preferredWhy, file, stdout, stderr,
                 exitCode, runs, writtenFor, lastRun>>

\* process returns to Main's loop: with a package left, process is called
\* for it, otherwise Main returns and the process exits.
Returns ==
  IF ai < Len(ipaths)
  THEN /\ ai' = ai + 1 /\ pkg' = ipaths[ai + 1] /\ pc' = "visit"
       /\ FreshRun
  ELSE /\ pc' = "done"
       /\ FreshRun
       /\ UNCHANGED <<ai, pkg>>

\* The check branch falling through to the write on a difference.
CheckModeWrites ==
  /\ pc = "rendered" /\ check
  /\ IF daErr
     THEN /\ pc' = "fatal" /\ stderr' = <<sFatal>> /\ exitCode' = 1
          /\ FreshRun
          /\ UNCHANGED <<ai, pkg, file>>
     ELSE IF daContents = buf
     THEN Returns /\ UNCHANGED <<stderr, exitCode, file>>
     ELSE /\ pc' = "exit1" /\ stderr' = <<sOutOfDate, sDiff>>
          /\ exitCode' = 1
          /\ file' = [file EXCEPT ![pkg] = [exists |-> TRUE, bytes |-> buf]]
          /\ FreshRun
          /\ UNCHANGED <<ai, pkg>>
  /\ UNCHANGED <<check, update, internal, geese, ipaths, world, stdout, runs,
                 writtenFor, lastRun>>

\* if *check: no file is fatal, equal bytes return to Main's loop, and on
\* a difference the notice and the diff are written to stderr (diff.Text
\* returning nil) and the process exits with status 1.
CheckMode ==
  /\ pc = "rendered" /\ check
  /\ IF daErr
     THEN /\ pc' = "fatal" /\ stderr' = <<sFatal>> /\ exitCode' = 1
          /\ FreshRun
          /\ UNCHANGED <<ai, pkg>>
     ELSE IF daContents = buf
     THEN Returns /\ UNCHANGED <<stderr, exitCode>>
     ELSE /\ pc' = "exit1" /\ stderr' = <<sOutOfDate, sDiff>>
          /\ exitCode' = 1
          /\ FreshRun
          /\ UNCHANGED <<ai, pkg>>
  /\ UNCHANGED <<check, update, internal, geese, ipaths, world, file, stdout,
                 runs, writtenFor, lastRun>>

\* if *check, on a difference: the notice is written and diff.Text returns
\* an error, log.Fatal.  diff.Text is a library's; whether it fails (its
\* reading of the two texts, its writes to stderr) is left open on every
\* difference, and no whole diff is on stderr when it does.
DiffFails ==
  /\ pc = "rendered" /\ check /\ ~daErr /\ daContents # buf
  /\ pc' = "fatal" /\ stderr' = <<sOutOfDate, sFatal>> /\ exitCode' = 1
  /\ FreshRun
  /\ UNCHANGED <<check, update, internal, geese, ipaths, ai, pkg, world,
                 file, stdout, runs, writtenFor, lastRun>>

\* if *update: ioutil.WriteFile(daFile, buf.Bytes(), 0644), and the return.
UpdateMode ==
  /\ pc = "rendered" /\ ~check /\ update
  /\ file' = [file EXCEPT ![pkg] = [exists |-> TRUE, bytes |-> buf]]
  /\ writtenFor' = [writtenFor EXCEPT ![pkg] = <<world, internal>>]
  /\ Returns
  /\ UNCHANGED <<check, update, internal, geese, ipaths, world, stdout,
                 stderr, exitCode, runs, lastRun>>

\* What a failed WriteFile can leave of the file.  WriteFile opens it with
\* O_TRUNC, writes, and closes: the file is untouched when the open fails,
\* holds the bytes of b that reached it when the write fails, and holds
\* all of b when only the close fails.
AfterFailedWrite(old, b) ==
  {old} \cup {[exists |-> TRUE, bytes |-> SubSeq(b, 1, n)] : n \in 0..Len(b)}

\* WriteFile returns an error, leaving the file as f: log.Fatal.
WriteFails(f) ==
  /\ pc = "rendered" /\ ~check /\ update
  /\ f \in AfterFailedWrite(file[pkg], buf)
  /\ file' = [file EXCEPT ![pkg] = f]
  /\ writtenFor' = IF f = file[pkg] THEN writtenFor
                   ELSE [writtenFor EXCEPT ![pkg] = <<>>]
  /\ lastRun' = ~(\/ f = file[pkg]
                  \/ Len(f.bytes) <= MaxCut
                  \/ Len(f.bytes) >= Len(buf) - MaxCut)
  /\ pc' = "fatal" /\ stderr' = <<sFatal>> /\ exitCode' = 1
  /\ FreshRun
  /\ UNCHANGED <<check, update, internal, geese, ipaths, ai, pkg, world,
                 stdout, runs>>

\* Neither flag: os.Stdout.Write(buf.Bytes()), the return, and Main's
\* fmt.Println() when more packages are to come.
PrintMode ==
  /\ pc = "rendered" /\ ~check /\ ~update
  /\ stdout' = stdout \o buf
                 \o (IF ai # Len(ipaths) THEN <<"\n">> ELSE <<>>)
  /\ Returns
  /\ UNCHANGED <<check, update, internal, geese, ipaths, world, file, stderr,
                 exitCode, runs, writtenFor, lastRun>>

Next ==
  \/ \E c \in Commands :
       \E chk \in BOOLEAN, upd \in BOOLEAN, incl \in BOOLEAN :
         Start(c.world, c.paths, chk, upd, incl)
  \/ \E incl \in BOOLEAN : BadFlags(incl)
  \/ \E chk \in BOOLEAN, upd \in BOOLEAN, incl \in BOOLEAN :
       PkgPathsFails(chk, upd, incl)
  \/ \E c \in Commands :
       \E chk \in BOOLEAN, upd \in BOOLEAN, incl \in BOOLEAN :
         BogusArg(c.paths, chk, upd, incl)
  \/ \E rev \in BOOLEAN :
       \E order \in (IF pc = "visit" /\ gi <= Len(geese)
                     THEN VisitOrders(LoadGraph(world, pkg, gi)) ELSE {}) :
         VisitTarget(order, rev)
  \/ LoadFails
  \/ NoGoFiles
  \/ SortAndRead
  \/ RenderBuf
  \/ CheckMode
  \/ DiffFails
  \/ UpdateMode
  \/ \E f \in AfterFailedWrite(file[pkg], buf) : WriteFails(f)
  \/ PrintMode

Spec == Init /\ [][Next]_vars

(***************************************************************************)
(* What the properties observe.  The rendered bytes are read back by       *)
(* column, as a reader of depaware.txt sees them; the facts about the      *)
(* import graphs are taken from what the loader reported, not from d.      *)
(***************************************************************************)
\* The lines of b, split at the newlines.
LinesOf(b) ==
  LET nl == Ascending({i \in 1..Len(b) : b[i] = "\n"})
  IN  [k \in 1..Len(nl) |->
         SubSeq(b, (IF k = 1 THEN 0 ELSE nl[k-1]) + 1, nl[k] - 1)]

\* The dependency lines: those after the header and the empty line.
BodyLines(b) ==
  LET ls == LinesOf(b) IN [k \in 1..(Len(ls) - 2) |-> ls[k + 2]]

\* The columns of one line, " %3s %s%s %-60s %s".  %3s pads the letters to
\* three columns and never cuts them: the marker field is three wide when
\* the column after them is the separating space, and else it is the run
\* of letters from column 2 to the next space.
MarkerWidth(l) ==
  IF l[OSFieldWidth + 2] = " " THEN OSFieldWidth
  ELSE (CHOOSE k \in 2..(Len(l) - 1) :
          l[k + 1] = " " /\ \A j \in 2..k : l[j] # " ") - 1
MarkerOf(l) == SubSeq(l, 2, MarkerWidth(l) + 1)
UnsafeColOf(l) == l[MarkerWidth(l) + 3]
CgoColOf(l) == l[MarkerWidth(l) + 4]
IdentCol(l) == MarkerWidth(l) + 6
IdentOf(l) ==
  LET c == IdentCol(l)
  IN  SubSeq(l, c,
             CHOOSE k \in c..(Len(l) - 1) :
               l[k + 1] = " " /\ \A j \in c..k : l[j] # " ")
AttrOf(l) ==
  LET n == Len(IdentOf(l))
  IN  SubSeq(l, IdentCol(l)
                  + (IF n < PkgFieldWidth THEN PkgFieldWidth ELSE n) + 1,
             Len(l))
\* The targets whose graph has been walked.
Walked == 1..(gi - 1)
\* The identities visited under target i, the root left out.
SeenUnder(i) ==
  {VendorlessPath(n) : n \in (DOMAIN LoadGraph(world, pkg, i)) \ {pkg}}
\* The import edges reported under target i, as pairs of identities.
EdgesUnder(i) ==
  LET g == LoadGraph(world, pkg, i)
  IN  UNION { {<<VendorlessPath(n), VendorlessPath(m)>> : m \in g[n]} :
              n \in DOMAIN g }
AllEdges == UNION {EdgesUnder(i) : i \in Walked}
Importers(p) == {e[1] : e \in {x \in AllEdges : x[2] = p}}
Range(q) == {q[i] : i \in 1..Len(q)}
Smallest(S) == CHOOSE x \in S : \A y \in S : x = y \/ StrLess(x, y)

\* The text of an attribution to w among n importers.
AttrText(w, n) == sFromSp \o w \o (IF n > 1 THEN sPlus ELSE <<>>)
\* The importer a rendered line names: the text after "from ", less the
\* '+' that marks several importers.
AttrSource(l) ==
  LET a == AttrOf(l)
      n == Cardinality(Importers(IdentOf(l)))
  IN  IF Len(a) < 6 THEN <<>>
      ELSE SubSeq(a, 6, IF n > 1 THEN Len(a) - 1 ELSE Len(a))

\* The previous snapshot as a reader following parsePreferredWhy's comment
\* takes it: on each line the words before and after the first "from",
\* a later line for a dependency replacing an earlier one.
Least(S) == CHOOSE x \in S : \A y \in S : x <= y

\* The lines of b as the Scanner hands them over, one after the other: up
\* to the next newline, without a carriage return before it, and none from
\* the first line on that does not fit the Scanner's buffer.
RECURSIVE LinesIn(_)
LinesIn(b) ==
  LET nls  == {i \in 1..Len(b) : b[i] = "\n"}
      raw  == IF nls = {} THEN b ELSE SubSeq(b, 1, Least(nls) - 1)
      rest == IF nls = {} THEN <<>> ELSE SubSeq(b, Least(nls) + 1, Len(b))
  IN  IF Len(b) = 0 \/ ByteLen(raw) >= MaxScanTokenSize THEN <<>>
      ELSE <<DropCR(raw)>> \o LinesIn(rest)

RECURSIVE WordsIn(_)
WordsIn(l) ==
  LET ink == {i \in 1..Len(l) : ~IsSpace(l[i])}
  IN  IF ink = {} THEN <<>>
      ELSE LET a   == Least(ink)
               gap == {i \in a..Len(l) : IsSpace(l[i])}
               e   == IF gap = {} THEN Len(l) ELSE Least(gap) - 1
           IN  <<SubSeq(l, a, e)>> \o WordsIn(SubSeq(l, e + 1, Len(l)))

\* The position of the first "from" among the words from k on, 0 if none.
RECURSIVE FirstFrom(_, _)
FirstFrom(ws, k) ==
  IF k > Len(ws) THEN 0
  ELSE IF ws[k] = sFrom THEN k ELSE FirstFrom(ws, k + 1)

\* <<dependency, source word>> of one line, <<>> for a line without both.
NamedOn(l) ==
  LET ws == WordsIn(l)
      k  == FirstFrom(ws, 1)
  IN  IF k < 2 \/ k = Len(ws) THEN <<>> ELSE <<ws[k - 1], ws[k + 1]>>

\* The source word of the last line naming p among the first k, <<>> if none.
RECURSIVE LastNamed(_, _, _)
LastNamed(named, k, p) ==
  IF k = 0 THEN <<>>
  ELSE IF named[k] # <<>> /\ named[k][1] = p THEN named[k][2]
  ELSE LastNamed(named, k - 1, p)

\* What each line of the snapshot that was read names.
PrevNamed ==
  LET ls == IF daErr THEN <<>> ELSE LinesIn(daContents)
  IN  [k \in 1..Len(ls) |-> NamedOn(ls[k])]

\* s without the '+' at its end, however many.
RECURSIVE StripPlus(_)
StripPlus(s) ==
  IF Len(s) > 0 /\ s[Len(s)] = "+" THEN StripPlus(SubSeq(s, 1, Len(s) - 1))
  ELSE s

\* The predecessor the previous snapshot names for p as the code reads it,
\* <<>> when none.
PrevSourceIn(named, p) == StripPlus(LastNamed(named, Len(named), p))
PrevSource(p) == PrevSourceIn(PrevNamed, p)

\* The three groups of identities.
IsPlatformStd(p) == ~Contains(p, sDot)
IsExtendedStd(p) == Contains(p, sGolangXDir)
IsThirdParty(p)  == Contains(p, sDot) /\ ~IsExtendedStd(p)

Rendered == pc = "rendered"

(***************************************************************************)
(* C1: the order of the rendered lines.                                    *)
(***************************************************************************)
\* The order in which the claim puts two identities: platform-standard
\* first, then extended-standard, then the other third-party ones.
ClaimedGroup(p) == IF IsPlatformStd(p) THEN 0 ELSE IF IsExtendedStd(p) THEN 1 ELSE 2
\* The order the code produces: third-party first, platform-standard last.
CodeGroup(p) == IF IsThirdParty(p) THEN 0 ELSE IF IsExtendedStd(p) THEN 1 ELSE 2

LinesOrderedBy(Group(_)) ==
  LET ls == BodyLines(buf)
  IN  \A i \in 1..Len(ls) : \A j \in 1..Len(ls) :
        i < j =>
          LET a == IdentOf(ls[i])
              b == IdentOf(ls[j])
          IN  \/ Group(a) < Group(b)
              \/ (Group(a) = Group(b) /\ StrLess(a, b))

\* C1 as stated: in the rendered snapshot every platform-standard line comes
\* before every third-party line, every extended-standard (golang.org/x/)
\* line before every other third-party line, and each group is in
\* lexicographic order.
C1_AsClaimed == Rendered => LinesOrderedBy(ClaimedGroup)

\* What the code does where C1 fails: the lines of the third-party
\* identities (a '.', no "golang.org/x/") come first, then the lines of the
\* identities containing "golang.org/x/", then the lines of the
\* platform-standard identities (no '.'); each group is in lexicographic
\* order of the identity string, and the lines are those of d.Deps.
C1_Order ==
  Rendered =>
    /\ LinesOrderedBy(CodeGroup)
    /\ Len(BodyLines(buf)) = Len(d.Deps)
    /\ \A k \in 1..Len(d.Deps) : IdentOf(BodyLines(buf)[k]) = d.Deps[k]

\* A rendering with two third-party lines, an extended-standard line and a
\* platform-standard line.
C1_Witness ==
  /\ Rendered
  /\ LET ids == {IdentOf(BodyLines(buf)[k]) : k \in 1..Len(BodyLines(buf))}
     IN  /\ Cardinality({p \in ids : IsThirdParty(p)}) >= 2
         /\ \E p \in ids : IsExtendedStd(p)
         /\ \E p \in ids : IsPlatformStd(p)

(***************************************************************************)
(* C2: the attribution keeps the predecessor of the previous snapshot.     *)
(***************************************************************************)
\* The predecessors the snapshot's word w can stand for, "with or without
\* a trailing '+'": w itself and w less any of the '+' at its end.
RECURSIVE ReadingsOf(_)
ReadingsOf(w) ==
  IF Len(w) > 0 /\ w[Len(w)] = "+"
  THEN {w} \cup ReadingsOf(SubSeq(w, 1, Len(w) - 1))
  ELSE {w}

\* C2 as stated: for every rendered dependency with importers, if the
\* previous snapshot attributes it to a predecessor P (with or without a
\* trailing '+') that is among its importers in this run, the line names
\* such a P again; only when no such P is among the importers is the
\* smallest importer named.
C2_AsClaimed ==
  Rendered =>
    LET named == PrevNamed
        lines == BodyLines(buf)
    IN  \A k \in 1..Len(lines) :
          LET l    == lines[k]
              dep  == IdentOf(l)
              imps == Importers(dep)
              kept == ReadingsOf(LastNamed(named, Len(named), dep)) \cap imps
          IN  imps # {} =>
                IF kept # {} THEN AttrSource(l) \in kept
                ELSE AttrSource(l) = Smallest(imps)

\* What the code guarantees for C2: for every rendered dependency with
\* importers, if the word the previous snapshot has after "from" for it,
\* with every '+' at its end removed, is among its importers in this run,
\* the line names that importer again, also when a smaller importer is
\* recorded; otherwise (no such importer, or no readable snapshot) it names
\* the lexicographically smallest importer.  An importer whose own path
\* ends in '+' is therefore not kept.
C2_Stability ==
  Rendered =>
    LET named == PrevNamed
        lines == BodyLines(buf)
    IN  \A k \in 1..Len(lines) :
          LET l    == lines[k]
              dep  == IdentOf(l)
              imps == Importers(dep)
              prev == PrevSourceIn(named, dep)
          IN  imps # {} =>
                AttrSource(l) = IF prev # <<>> /\ prev \in imps
                                THEN prev
                                ELSE Smallest(imps)

\* A line that keeps the predecessor of a snapshot the program wrote
\* although a smaller importer is now recorded.
C2_Witness ==
  /\ Rendered /\ writtenFor[pkg] # <<>>
  /\ \E k \in 1..Len(BodyLines(buf)) :
       LET l    == BodyLines(buf)[k]
           dep  == IdentOf(l)
           prev == PrevSource(dep)
       IN  /\ prev # <<>> /\ prev \in Importers(dep)
           /\ StrLess(Smallest(Importers(dep)), prev)
           /\ AttrSource(l) = prev

(***************************************************************************)
(* C3: a dependency imported by the root alone.                            *)
(***************************************************************************)
\* A dependency that no package but the root imports.
OnlyRootImports(dep) == Importers(dep) = {VendorlessPath(pkg)}

\* C3 as stated: a dependency reached only through the root's direct import
\* has no attribution candidate and its line carries no attribution text.
C3_AsClaimed ==
  Rendered =>
    \A k \in 1..Len(BodyLines(buf)) :
      LET l == BodyLines(buf)[k]
      IN  OnlyRootImports(IdentOf(l)) =>
            /\ MapGet(d.DepTo, IdentOf(l)) = <<>>
            /\ AttrOf(l) = <<>>

\* What the code does where C3 fails: a dependency reached only through
\* the root's direct import has the root as its one attribution candidate
\* and its line reads "from <root>" without '+'.
C3_RootAttribution ==
  Rendered =>
    \A k \in 1..Len(BodyLines(buf)) :
      LET l == BodyLines(buf)[k]
      IN  OnlyRootImports(IdentOf(l)) =>
            /\ MapGet(d.DepTo, IdentOf(l)) = <<VendorlessPath(pkg)>>
            /\ AttrOf(l) = sFromSp \o VendorlessPath(pkg)

\* A rendering with a line for a dependency only the root imports.
C3_Witness ==
  /\ Rendered
  /\ \E k \in 1..Len(BodyLines(buf)) : OnlyRootImports(IdentOf(BodyLines(buf)[k]))

(***************************************************************************)
(* C4: check mode.                                                         *)
(***************************************************************************)
\* What a step of a check run after the rendering of a package does when
\* the snapshot cannot be read or equals the rendered bytes: it ends the
\* run fatally, or succeeds for that package with no output (the run ends
\* with status 0, or goes on to the next package).
CheckReturns ==
  IF ~file[pkg].exists
  THEN pc' = "fatal" /\ exitCode' = 1 /\ stderr' = <<sFatal>>
  ELSE /\ exitCode' = 0 /\ stderr' = <<>>
       /\ IF ai = Len(ipaths) THEN pc' = "done"
          ELSE pc' = "visit" /\ pkg' = ipaths[ai + 1]

\* C4 as stated: in check mode the step that follows the rendering of a
\* package ends the run fatally when the package's snapshot could not be
\* read, succeeds for that package with no output when the snapshot's
\* bytes equal the rendered bytes, and otherwise emits a diff and exits
\* non-zero; no step of a check run changes a file.
C4_AsClaimed ==
  [][ /\ (check /\ check' /\ runs' = runs) => file' = file
      /\ (pc = "rendered" /\ check) =>
           /\ file' = file /\ stdout' = <<>>
           /\ IF file[pkg].exists /\ file[pkg].bytes # buf
              THEN /\ exitCode' = 1 /\ sDiff \in Range(stderr')
              ELSE CheckReturns ]_vars

\* C4 amended: in check mode the step that follows the rendering of a
\* package ends the run fatally when the package's snapshot could not be
\* read, succeeds for that package with no output when the snapshot's
\* bytes equal the rendered bytes, and otherwise writes the out-of-date
\* notice and ends the run with status 1, after the diff when one could be
\* produced and fatally when not; no step of a check run changes a file.
C4_CheckMode ==
  [][ /\ (check /\ check' /\ runs' = runs) => file' = file
      /\ (pc = "rendered" /\ check) =>
           /\ file' = file /\ stdout' = <<>>
           /\ IF file[pkg].exists /\ file[pkg].bytes # buf
              THEN /\ exitCode' = 1
                   /\ \/ pc' = "exit1" /\ stderr' = <<sOutOfDate, sDiff>>
                      \/ pc' = "fatal" /\ stderr' = <<sOutOfDate, sFatal>>
              ELSE CheckReturns ]_vars

\* A check run that found a difference and could not produce the diff:
\* the notice and the fatal message on stderr, exit status 1, the file
\* still there.
C4_Witness ==
  /\ pc = "fatal" /\ check /\ stderr = <<sOutOfDate, sFatal>>
  /\ exitCode = 1 /\ file[pkg].exists

(***************************************************************************)
(* C5: the rendering does not depend on the order of the observations.     *)
(***************************************************************************)
\* One fixed order of visit for each graph.
FixedOrder(g) == CHOOSE o \in VisitOrders(g) : TRUE

\* The accumulation with the targets walked from the last to the first,
\* each in its fixed order, the imports ranged over in decreasing order.
RECURSIVE Reference(_, _)
Reference(dd, i) ==
  IF i < 1 THEN dd
  ELSE Reference(VisitAll(dd, LoadGraph(world, pkg, i),
                          FixedOrder(LoadGraph(world, pkg, i)),
                          1, pkg, geese[i], TRUE), i - 1)

ReferenceRender ==
  Render(pkg, [Reference(EmptyDeps, Len(geese)) EXCEPT !.Deps = SortDeps(@)],
         geese, preferredWhy)

\* C5: for a fixed GOOS list and previous snapshot, the rendered bytes of a
\* run are those of any other run over the same edges and visits, whatever
\* the order of the AddEdge and AddDep calls and of the targets.
C5_Deterministic == Rendered => buf = ReferenceRender.buf

\* A rendering of several lines reached with importer slices in another
\* order than the reference run's.
C5_Witness ==
  /\ Rendered /\ Len(d.Deps) >= 3
  /\ \E p \in DOMAIN d.DepTo : d.DepTo[p] # ReferenceRender.DepTo[p]

(***************************************************************************)
(* C6: update is idempotent.                                               *)
(***************************************************************************)
\* C6: an update run of a package over the graph, GOOS list and -internal
\* flag of the update run that wrote the package's file renders the bytes
\* the file holds, so it writes the same bytes again, whatever the file
\* held before the first of the two.
C6_Idempotent ==
  (Rendered /\ update /\ file[pkg].exists
     /\ writtenFor[pkg] = <<world, internal>>)
    => buf = file[pkg].bytes

\* The second update in a row over the same input, the first having found
\* a file edited by hand, with a line of several importers whose
\* attribution is not the smallest of them: it stands only because it was
\* parsed back from the file.
C6_Witness ==
  /\ Rendered /\ update /\ file[pkg].exists
  /\ writtenFor[pkg] = <<world, internal>>
  /\ \E k \in 1..Len(BodyLines(buf)) :
       LET l == BodyLines(buf)[k]
       IN  /\ Cardinality(Importers(IdentOf(l))) > 1
           /\ AttrSource(l) # Smallest(Importers(IdentOf(l)))

(***************************************************************************)
(* C7: the target-marker field.                                            *)
(***************************************************************************)
\* The letter of a GOOS name.
LetterOf(goos) ==
  IF goos = linux THEN "L" ELSE IF goos = darwin THEN "D"
  ELSE IF goos = windows THEN "W" ELSE IF goos = freebsd THEN "F" ELSE "O"

RECURSIVE LettersFor(_, _)
LettersFor(dep, i) ==
  IF i > Len(geese) THEN <<>>
  ELSE (IF dep \in SeenUnder(i) THEN <<LetterOf(geese[i])>> ELSE <<>>)
       \o LettersFor(dep, i + 1)

\* C7: the marker field of a line is blank when the dependency was observed
\* under every GOOS of the run; otherwise it holds the first letter, in
\* upper case, of each GOOS it was observed under, in the order of the
\* list, right-aligned in the field, and nothing else.
C7_Markers ==
  Rendered =>
    \A k \in 1..Len(BodyLines(buf)) :
      LET l   == BodyLines(buf)[k]
          dep == IdentOf(l)
      IN  MarkerOf(l) =
            IF \A i \in 1..Len(geese) : dep \in SeenUnder(i)
            THEN <<" ", " ", " ">>
            ELSE PadLeft(LettersFor(dep, 1), 3)

\* A rendering over five GOOS with a dependency under all of them and one
\* under the first four, whose letters overflow the three columns.
C7_Witness ==
  /\ Rendered /\ Len(geese) = 5
  /\ \E k \in 1..Len(BodyLines(buf)) :
       MarkerOf(BodyLines(buf)[k]) = <<" ", " ", " ">>
  /\ \E k \in 1..Len(BodyLines(buf)) :
       MarkerOf(BodyLines(buf)[k]) = <<"L", "D", "W", "F">>

(***************************************************************************)
(* C8: the U and C markers.                                                *)
(***************************************************************************)
\* C8 as stated: a line shows U (resp. C) exactly when an edge from its
\* dependency to "unsafe" (resp. "runtime/cgo") was reported under some
\* GOOS and the dependency is neither platform-standard nor
\* extended-standard (golang.org/x/); the column is blank otherwise.
C8_AsClaimed ==
  Rendered =>
    \A k \in 1..Len(BodyLines(buf)) :
      LET l   == BodyLines(buf)[k]
          dep == IdentOf(l)
          std == IsPlatformStd(dep) \/ IsExtendedStd(dep)
      IN  /\ UnsafeColOf(l) =
               IF <<dep, sUnsafe>> \in AllEdges /\ ~std THEN "U" ELSE " "
          /\ CgoColOf(l) =
               IF <<dep, sRuntimeCgo>> \in AllEdges /\ ~std THEN "C" ELSE " "

\* What the code guarantees for C8: a line shows U (resp. C) exactly when
\* such an edge was reported and the identity has a '.' and does not
\* contain "golang.org/x", with or without a '/' after it.
C8_Flags ==
  Rendered =>
    \A k \in 1..Len(BodyLines(buf)) :
      LET l   == BodyLines(buf)[k]
          dep == IdentOf(l)
          std == IsPlatformStd(dep) \/ Contains(dep, sGolangX)
      IN  /\ UnsafeColOf(l) =
               IF <<dep, sUnsafe>> \in AllEdges /\ ~std THEN "U" ELSE " "
          /\ CgoColOf(l) =
               IF <<dep, sRuntimeCgo>> \in AllEdges /\ ~std THEN "C" ELSE " "

\* A rendering with a third-party line showing U and C and an
\* extended-standard line that imports unsafe and shows neither.
C8_Witness ==
  /\ Rendered
  /\ \E k \in 1..Len(BodyLines(buf)) :
       LET l == BodyLines(buf)[k]
       IN  UnsafeColOf(l) = "U" /\ CgoColOf(l) = "C"
  /\ \E k \in 1..Len(BodyLines(buf)) :
       LET l == BodyLines(buf)[k]
       IN  /\ IsExtendedStd(IdentOf(l)) /\ <<IdentOf(l), sUnsafe>> \in AllEdges
           /\ UnsafeColOf(l) = " "

(***************************************************************************)
(* C9: the members of the dependency list.                                 *)
(***************************************************************************)
AllSeen == UNION {SeenUnder(i) : i \in Walked}

\* C9: after the targets walked so far, d.Deps holds each identity at most
\* once, never the root, and exactly the visited non-root identities that
\* are not platform-internal, or all of them under -internal; every import
\* edge reported, those of the left-out packages too, is in d.DepTo.
C9_Membership ==
  /\ \A i \in 1..Len(d.Deps) : \A j \in 1..Len(d.Deps) :
       d.Deps[i] = d.Deps[j] => i = j
  /\ \A i \in 1..Len(d.Deps) : d.Deps[i] # pkg
  /\ ~internal => \A i \in 1..Len(d.Deps) : ~isInternalPackage(d.Deps[i])
  /\ {d.Deps[i] : i \in 1..Len(d.Deps)} =
       {p \in AllSeen : internal \/ ~isInternalPackage(p)}
  /\ \A e \in AllEdges : stringsContains(MapGet(d.DepTo, e[2]), e[1])

\* A rendering without -internal in which packages were left out, one of
\* them named as the predecessor of a listed dependency, another line
\* showing the U its edge to the left-out "unsafe" set.
C9_Witness ==
  /\ Rendered /\ ~internal
  /\ \E p \in AllSeen : isInternalPackage(p)
  /\ \E k \in 1..Len(BodyLines(buf)) :
       isInternalPackage(AttrSource(BodyLines(buf)[k]))
  /\ \E k \in 1..Len(BodyLines(buf)) : UnsafeColOf(BodyLines(buf)[k]) = "U"

(***************************************************************************)
(* C10: each importer is recorded once.                                    *)
(***************************************************************************)
\* C10: every slice of d.DepTo holds each importer at most once, and a
\* rendered line reads "from W+" for an importer W of its dependency when
\* more than one distinct importer was reported, "from W" when W is the
\* only one, and has no attribution when there is none.
C10_Dedup ==
  /\ \A p \in DOMAIN d.DepTo :
       \A i \in 1..Len(d.DepTo[p]) : \A j \in 1..Len(d.DepTo[p]) :
         d.DepTo[p][i] = d.DepTo[p][j] => i = j
  /\ Rendered =>
       \A k \in 1..Len(BodyLines(buf)) :
         LET l    == BodyLines(buf)[k]
             imps == Importers(IdentOf(l))
         IN  IF imps = {} THEN AttrOf(l) = <<>>
             ELSE \E w \in imps : AttrOf(l) = AttrText(w, Cardinality(imps))

\* A rendering after the same edge was reported under two GOOS, with a
\* line of one importer (no '+') and a line of several ('+').
C10_Witness ==
  /\ Rendered /\ Len(geese) >= 2
  /\ EdgesUnder(1) \cap EdgesUnder(2) # {}
  /\ \E k \in 1..Len(BodyLines(buf)) :
       LET l    == BodyLines(buf)[k]
           imps == Importers(IdentOf(l))
       IN  Cardinality(imps) = 1 /\ \E w \in imps : AttrOf(l) = sFromSp \o w
  /\ \E k \in 1..Len(BodyLines(buf)) :
       LET l    == BodyLines(buf)[k]
           imps == Importers(IdentOf(l))
       IN  \E w \in imps : AttrOf(l) = sFromSp \o w \o sPlus

====
